---- MODULE Spec2Model ----
(***************************************************************************)
(* CrabSafe / copy_crab: the configuration state machine, the settings     *)
(* store (copy-paste.json) and the file-materialization engine.            *)
(*                                                                         *)
(* Strings are sequences of tokens.  A path string is a sequence of name   *)
(* tokens and of the two separator tokens "/" and "\\"; a text file is a   *)
(* sequence of lines and a line is a sequence of tokens.  The file system  *)
(* resolves a path string into components according to the platform the    *)
(* binary runs on: "/" separates on both, "\\" only on windows.            *)
(***************************************************************************)
EXTENDS Integers, Sequences, FiniteSets, TLC

VARIABLES platform, origin, disk, pre, CHOICES, op, outcome, log, runs,
          builder, calls, ret

vars == <<platform, origin, disk, pre, CHOICES, op, outcome, log, runs,
          builder, calls, ret>>

(***************************************************************************)
(* Bounds                                                                  *)
(***************************************************************************)
\* largest number of entries the user ticks in one MultiSelect prompt
MaxPick == 1

\* number of runs of the program in one behaviour
MaxRuns == 2

(***************************************************************************)
(* Generic helpers                                                         *)
(***************************************************************************)
Front(s) == SubSeq(s, 1, Len(s) - 1)

Last(s) == s[Len(s)]

Range(s) == {s[i] : i \in 1..Len(s)}

NoDup(s) == \A i, j \in 1..Len(s) : i # j => s[i] # s[j]

RECURSIVE SelectSeqBy(_, _)
\* the subsequence of s whose elements are in keep
SelectSeqBy(s, keep) ==
    IF s = <<>> THEN <<>>
    ELSE IF s[1] \in keep THEN <<s[1]>> \o SelectSeqBy(Tail(s), keep)
    ELSE SelectSeqBy(Tail(s), keep)

\* all duplicate-free sequences over S of length at most n
RECURSIVE SeqsUpTo(_, _)
SeqsUpTo(S, n) ==
    IF n = 0 THEN {<<>>}
    ELSE LET shorter == SeqsUpTo(S, n - 1)
         IN shorter \cup {Append(s, x) : s \in shorter, x \in S}

PicksFrom(S) == {s \in SeqsUpTo(S, MaxPick) : NoDup(s)}

(***************************************************************************)
(* models/mod.rs, models/config_handler, models/feature_set,               *)
(* models/chosen_features                                                  *)
(***************************************************************************)
Runtime == {"Deno", "NodeJs", "ClientSide"}

Modularity == {"SingleFile", "SplitFiles"}

FeatureSet == {"All", "Core", "CorePlus"}

get_all == <<"Core", "Example", "Option", "Result", "Parsers">>

Feature == Range(get_all)

\* catalog position of a feature (declaration order of the enum)
FeatureIndex(f) == CHOOSE i \in 1..Len(get_all) : get_all[i] = f

\* variant: only the first included feature is removed from the set
get_complements_first_removed(included) ==
    Feature \ (IF included = <<>> THEN {} ELSE {included[1]})

\* Feature::get_complements: a HashSet of every feature minus the included
\* ones; the iteration order of the resulting Vec is unspecified, so only
\* the set is defined here and callers choose an order.
get_complements(included) == Feature \ Range(included)

get_file_name(f) ==
    CASE f = "Core" -> "core.ts"
      [] f = "Example" -> "example.ts"
      [] f = "Option" -> "option.ts"
      [] f = "Result" -> "result.ts"
      [] f = "Parsers" -> "parsers.ts"

\* The template payloads (ts/*.ts, included by ts_file_data.rs): opaque
\* text.  Each is a sequence of lines ending in a newline (hence the empty
\* last line); representative import lines are a relative import, a remote
\* http import and a bare package import.
CORE_FUNCTIONS == << <<"core_body">>, <<>> >>

EXAMPLE == << <<"import", "pkg">>, <<"example_body">>, <<>> >>

OPTION == << <<"import", "\"./">>, <<"option_body">>, <<>> >>

RESULT == << <<" ", "import", "\"./">>, <<"result_body">>, <<>> >>

PARSERS == << <<"import", "http">>, <<"parsers_body">>, <<>> >>

get_implementation(f) ==
    CASE f = "Core" -> CORE_FUNCTIONS
      [] f = "Example" -> EXAMPLE
      [] f = "Option" -> OPTION
      [] f = "Result" -> RESULT
      [] f = "Parsers" -> PARSERS

Preset(name) == [tag |-> "Preset", preset_name |-> name, features |-> <<>>]

Custom(list) == [tag |-> "Custom", preset_name |-> "", features |-> list]

\* variant: CorePlus listed out of catalog order
FeatureSet_get_feature_list_unordered(name) ==
    CASE name = "All" -> get_all
      [] name = "Core" -> <<"Core">>
      [] name = "CorePlus" -> <<"Core", "Result", "Option">>

FeatureSet_get_feature_list(name) ==
    CASE name = "All" -> get_all
      [] name = "Core" -> <<"Core">>
      [] name = "CorePlus" -> <<"Core", "Option", "Result">>

get_feature_list(cf) ==
    IF cf.tag = "Custom" THEN cf.features
    ELSE FeatureSet_get_feature_list(cf.preset_name)

ProjectChoices(runtime, chosen_directory, feature_set, modularity) ==
    [runtime |-> runtime, chosen_directory |-> chosen_directory,
     feature_set |-> feature_set, modularity |-> modularity]

\* the empty RefCell / "no configuration" value
NoChoices == [some |-> FALSE, val |-> ProjectChoices("Deno", <<>>, Custom(<<>>), "SingleFile")]

SomeChoices(c) == [some |-> TRUE, val |-> c]

(***************************************************************************)
(* Path strings                                                            *)
(***************************************************************************)
Contains(s, tok) == \E i \in 1..Len(s) : s[i] = tok

EndsWith(s, tok) == Len(s) > 0 /\ s[Len(s)] = tok

\* parse_path: (directory without its trailing separator, separator to use)
parse_path(chosen_directory) ==
    IF EndsWith(chosen_directory, "/")
    THEN [dir |-> Front(chosen_directory), sep |-> "/"]
    ELSE IF EndsWith(chosen_directory, "\\")
    THEN [dir |-> Front(chosen_directory), sep |-> "\\"]
    ELSE IF Contains(chosen_directory, "/")
    THEN [dir |-> chosen_directory, sep |-> "/"]
    ELSE [dir |-> chosen_directory, sep |-> "\\"]

Separators(pl) == IF pl = "windows" THEN {"/", "\\"} ELSE {"/"}

RECURSIVE ResolveFrom(_, _, _, _)
\* the operating system's reading of a path string: the components between
\* separators, empty components and "." dropped
ResolveFrom(pl, s, cur, acc) ==
    LET flush == IF cur = <<>> \/ cur = <<".">> THEN acc ELSE Append(acc, cur)
    IN IF s = <<>> THEN flush
       ELSE IF s[1] \in Separators(pl) THEN ResolveFrom(pl, Tail(s), <<>>, flush)
       ELSE ResolveFrom(pl, Tail(s), Append(cur, s[1]), acc)

Resolve(pl, s) == ResolveFrom(pl, s, <<>>, <<>>)

IsPrefix(p, q) == Len(p) <= Len(q) /\ SubSeq(q, 1, Len(p)) = p

(***************************************************************************)
(* std::fs on the modelled disk.  disk.dirs is the set of directories      *)
(* (resolved paths, the working directory is <<>>), disk.files maps each   *)
(* regular file under them to its text, disk.settings is copy-paste.json   *)
(* in the working directory.  Every call returns [ok, disk].               *)
(***************************************************************************)
IsDir(d, p) == p \in d.dirs

IsFile(d, p) == p \in DOMAIN d.files

fs_metadata(d, p) == IsDir(d, p) \/ IsFile(d, p)

ParentIsDir(d, p) == Len(p) > 0 /\ IsDir(d, Front(p))

fs_write(d, p, text) ==
    IF ParentIsDir(d, p) /\ ~IsDir(d, p)
    THEN [ok |-> TRUE,
          disk |-> [d EXCEPT !.files =
                       [q \in DOMAIN d.files \cup {p} |->
                            IF q = p THEN text ELSE d.files[q]]]]
    ELSE [ok |-> FALSE, disk |-> d]

\* variant: creating a directory that is already there succeeds
fs_create_dir_existing_ok(d, p) ==
    IF ParentIsDir(d, p) /\ ~IsFile(d, p)
    THEN [ok |-> TRUE, disk |-> [d EXCEPT !.dirs = @ \cup {p}]]
    ELSE [ok |-> FALSE, disk |-> d]

fs_create_dir(d, p) ==
    IF ParentIsDir(d, p) /\ ~fs_metadata(d, p)
    THEN [ok |-> TRUE, disk |-> [d EXCEPT !.dirs = @ \cup {p}]]
    ELSE [ok |-> FALSE, disk |-> d]

fs_create_dir_all(d, p) ==
    LET prefixes == {SubSeq(p, 1, n) : n \in 0..Len(p)}
    IN IF \E q \in prefixes : IsFile(d, q)
       THEN [ok |-> FALSE, disk |-> d]
       ELSE [ok |-> TRUE, disk |-> [d EXCEPT !.dirs = @ \cup prefixes]]

fs_remove_dir_all(d, p) ==
    IF IsDir(d, p) /\ Len(p) > 0
    THEN [ok |-> TRUE,
          disk |-> [d EXCEPT
                      !.dirs = {q \in @ : ~IsPrefix(p, q)},
                      !.files = [q \in {r \in DOMAIN d.files : ~IsPrefix(p, r)}
                                    |-> d.files[q]]]]
    ELSE [ok |-> FALSE, disk |-> d]

fs_remove_file(d, p) ==
    IF IsFile(d, p)
    THEN [ok |-> TRUE,
          disk |-> [d EXCEPT !.files =
                       [q \in DOMAIN d.files \ {p} |-> d.files[q]]]]
    ELSE [ok |-> FALSE, disk |-> d]

(***************************************************************************)
(* serde_json values and the derived Serialize / Deserialize of            *)
(* ProjectChoices.  A value is a tagged pair; an object is a function from *)
(* key names to values.                                                    *)
(***************************************************************************)
JNull == <<"null", <<>>>>

JNum(n) == <<"num", n>>

JStr(s) == <<"str", s>>

JArr(items) == <<"arr", items>>

JObj(f) == <<"obj", f>>

EmptyObject == [k \in {} |-> JNull]

\* a unit variant (Runtime, Modularity, FeatureSet, Feature) is its name
ser_unit(name) == JStr(<<name>>)

ser_feature_set(cf) ==
    IF cf.tag = "Preset"
    THEN JObj("Preset" :> JObj("preset_name" :> ser_unit(cf.preset_name)))
    ELSE JObj("Custom" :> JObj("features" :>
                 JArr([i \in 1..Len(cf.features) |-> ser_unit(cf.features[i])])))

\* variant: the directory is stored without its trailing separator
to_value_stripped(c) ==
    JObj("runtime" :> ser_unit(c.runtime)
         @@ "chosen_directory" :> JStr(parse_path(c.chosen_directory).dir)
         @@ "feature_set" :> ser_feature_set(c.feature_set)
         @@ "modularity" :> ser_unit(c.modularity))

\* serde_json::to_value(&choices)
to_value(c) ==
    JObj("runtime" :> ser_unit(c.runtime)
         @@ "chosen_directory" :> JStr(c.chosen_directory)
         @@ "feature_set" :> ser_feature_set(c.feature_set)
         @@ "modularity" :> ser_unit(c.modularity))

\* a unit variant reads from its name or from the map {name: null}
de_unit(v, names) ==
    IF v[1] = "str" /\ Len(v[2]) = 1 /\ v[2][1] \in names
    THEN [ok |-> TRUE, val |-> v[2][1]]
    ELSE IF v[1] = "obj" /\ Cardinality(DOMAIN v[2]) = 1
            /\ DOMAIN v[2] \subseteq names
            /\ \A k \in DOMAIN v[2] : v[2][k] = JNull
    THEN [ok |-> TRUE, val |-> CHOOSE k \in DOMAIN v[2] : TRUE]
    ELSE [ok |-> FALSE, val |-> ""]

\* the fields of a struct read from a map (unknown keys ignored, a missing
\* key is an error) or from a sequence of exactly the fields in order
de_fields(v, names) ==
    IF v[1] = "obj" /\ Range(names) \subseteq DOMAIN v[2]
    THEN [ok |-> TRUE, val |-> [k \in Range(names) |-> v[2][k]]]
    ELSE IF v[1] = "arr" /\ Len(v[2]) = Len(names)
    THEN [ok |-> TRUE,
          val |-> [k \in Range(names) |->
                      v[2][CHOOSE i \in 1..Len(names) : names[i] = k]]]
    ELSE [ok |-> FALSE, val |-> [k \in Range(names) |-> JNull]]

de_features(v) ==
    IF v[1] = "arr" /\ \A i \in 1..Len(v[2]) : de_unit(v[2][i], Feature).ok
    THEN [ok |-> TRUE, val |-> [i \in 1..Len(v[2]) |-> de_unit(v[2][i], Feature).val]]
    ELSE [ok |-> FALSE, val |-> <<>>]

de_feature_set(v) ==
    IF v[1] = "obj" /\ DOMAIN v[2] = {"Preset"}
    THEN LET fs == de_fields(v[2]["Preset"], <<"preset_name">>)
             name == de_unit(fs.val["preset_name"], FeatureSet)
         IN IF fs.ok /\ name.ok
            THEN [ok |-> TRUE, val |-> Preset(name.val)]
            ELSE [ok |-> FALSE, val |-> Custom(<<>>)]
    ELSE IF v[1] = "obj" /\ DOMAIN v[2] = {"Custom"}
    THEN LET fs == de_fields(v[2]["Custom"], <<"features">>)
             list == de_features(fs.val["features"])
         IN IF fs.ok /\ list.ok
            THEN [ok |-> TRUE, val |-> Custom(list.val)]
            ELSE [ok |-> FALSE, val |-> Custom(<<>>)]
    ELSE [ok |-> FALSE, val |-> Custom(<<>>)]

\* serde_json::from_value::<ProjectChoices>(value)
from_value(v) ==
    LET fs == de_fields(v, <<"runtime", "chosen_directory", "feature_set", "modularity">>)
        rt == de_unit(fs.val["runtime"], Runtime)
        dir == fs.val["chosen_directory"]
        cf == de_feature_set(fs.val["feature_set"])
        md == de_unit(fs.val["modularity"], Modularity)
    IN IF fs.ok /\ rt.ok /\ dir[1] = "str" /\ cf.ok /\ md.ok
       THEN [ok |-> TRUE, val |-> ProjectChoices(rt.val, dir[2], cf.val, md.val)]
       ELSE [ok |-> FALSE, val |-> NoChoices.val]

(***************************************************************************)
(* settings_finder: copy-paste.json.  disk.settings.exists tells whether   *)
(* the file is there; when it is, disk.settings.doc is the JSON object it  *)
(* holds.                                                                  *)
(***************************************************************************)
FILE_NAME == "copy-paste.json"

SETTINGS_KEY == "crabSafe"

NoSettingsFile == [exists |-> FALSE, doc |-> EmptyObject]

SettingsFile(doc) == [exists |-> TRUE, doc |-> doc]

\* variant: a value that does not parse reads as no configuration
find_settings_lenient(d) ==
    IF ~d.settings.exists
    THEN [res |-> "none", val |-> NoChoices.val]
    ELSE IF SETTINGS_KEY \in DOMAIN d.settings.doc
    THEN LET found_config == from_value(d.settings.doc[SETTINGS_KEY])
         IN IF ~found_config.ok
            THEN [res |-> "none", val |-> NoChoices.val]
            ELSE [res |-> "some", val |-> found_config.val]
    ELSE [res |-> "none", val |-> NoChoices.val]

\* find_settings: res is "none", "some" (val is the configuration) or "err"
find_settings(d) ==
    IF ~d.settings.exists
    THEN [res |-> "none", val |-> NoChoices.val]
    ELSE IF SETTINGS_KEY \in DOMAIN d.settings.doc
    THEN LET found_config == from_value(d.settings.doc[SETTINGS_KEY])
         IN IF ~found_config.ok
            THEN [res |-> "err", val |-> NoChoices.val]
            ELSE [res |-> "some", val |-> found_config.val]
    ELSE [res |-> "none", val |-> NoChoices.val]

\* variant: the document is written afresh with the crabSafe key alone
save_settings_alone(d, choices) ==
    [ok |-> TRUE,
     disk |-> [d EXCEPT !.settings = SettingsFile(SETTINGS_KEY :> to_value(choices))]]

save_settings(d, choices) ==
    LET file_contents ==
            IF ~d.settings.exists
            THEN SETTINGS_KEY :> to_value(choices)
            ELSE [k \in DOMAIN d.settings.doc \cup {SETTINGS_KEY} |->
                     IF k = SETTINGS_KEY THEN to_value(choices)
                     ELSE d.settings.doc[k]]
    IN [ok |-> TRUE, disk |-> [d EXCEPT !.settings = SettingsFile(file_contents)]]

(***************************************************************************)
(* Text: a string is a non-empty sequence of lines (what split("\n")       *)
(* yields), the empty string is one empty line.                            *)
(***************************************************************************)
EmptyStr == << <<>> >>

\* a ++ b: the last line of a continues with the first line of b
StrCat(a, b) == Front(a) \o << Last(a) \o b[1] >> \o Tail(b)

\* lines.join("\n")
Join(lines) == IF lines = <<>> THEN EmptyStr ELSE lines

IsBlank(line) == \A i \in 1..Len(line) : line[i] = " "

RECURSIVE TrimStartLine(_)
TrimStartLine(line) ==
    IF line # <<>> /\ line[1] = " " THEN TrimStartLine(Tail(line)) ELSE line

RECURSIVE TrimEndLine(_)
TrimEndLine(line) ==
    IF line # <<>> /\ Last(line) = " " THEN TrimEndLine(Front(line)) ELSE line

RECURSIVE TrimStart(_)
TrimStart(str) ==
    IF Len(str) > 1 /\ IsBlank(str[1]) THEN TrimStart(Tail(str))
    ELSE << TrimStartLine(str[1]) >> \o Tail(str)

RECURSIVE TrimEnd(_)
TrimEnd(str) ==
    IF Len(str) > 1 /\ IsBlank(Last(str)) THEN TrimEnd(Front(str))
    ELSE Front(str) \o << TrimEndLine(Last(str)) >>

\* str.trim()
Trim(str) == TrimEnd(TrimStart(str))

\* line.trim().starts_with("import")
IsImportLine(line) ==
    LET t == TrimStartLine(line) IN t # <<>> /\ t[1] = "import"

(***************************************************************************)
(* models/project_choices.rs                                               *)
(***************************************************************************)
\* Filters out lines that contain the `exclude` token
filter_out(lines, exclude) == SelectSeq(lines, LAMBDA line : ~Contains(line, exclude))

RECURSIVE gen_body(_)
\* the loop of gen_single_filedata: each file without its import lines,
\* pushed onto implementation_str with nothing in between
gen_body(relevant_files) ==
    IF relevant_files = <<>> THEN EmptyStr
    ELSE StrCat(gen_body(Front(relevant_files)),
                Join(SelectSeq(Last(relevant_files), LAMBDA line : ~IsImportLine(line))))

RECURSIVE gen_imports(_)
\* the import lines the same loop collects, in order
gen_imports(relevant_files) ==
    IF relevant_files = <<>> THEN <<>>
    ELSE gen_imports(Front(relevant_files))
         \o SelectSeq(Last(relevant_files), IsImportLine)

\* variant: one newline, not two, after the import lines
gen_single_filedata_no_blank(runtime, relevant_files) ==
    LET implementation_str == gen_body(relevant_files)
        collected == gen_imports(relevant_files)
        no_deno == IF runtime # "Deno" THEN filter_out(collected, "http") ELSE collected
        import_lines == Join(filter_out(no_deno, "\"./"))
        import_block == IF Trim(import_lines) = EmptyStr THEN EmptyStr
                        ELSE StrCat(import_lines, << <<>>, <<>> >>)
    IN StrCat(import_block, Trim(implementation_str))

gen_single_filedata(runtime, relevant_files) ==
    LET implementation_str == gen_body(relevant_files)
        collected == gen_imports(relevant_files)
        no_deno == IF runtime # "Deno" THEN filter_out(collected, "http") ELSE collected
        import_lines == Join(filter_out(no_deno, "\"./"))
        import_block == IF Trim(import_lines) = EmptyStr THEN EmptyStr
                        ELSE StrCat(import_lines, << <<>>, <<>>, <<>> >>)
    IN StrCat(import_block, Trim(implementation_str))

\* variant: every payload is merged, whatever the runtime
single_relevant_files_all(runtime, features) ==
    [i \in 1..Len(features) |-> get_implementation(features[i])]

\* the payloads handle() merges in SingleFile mode: parsers.ts is left out
\* unless the runtime is Deno
single_relevant_files(runtime, features) ==
    LET kept == SelectSeq(features,
                    LAMBDA f : ~(runtime # "Deno" /\ get_file_name(f) = "parsers.ts"))
    IN [i \in 1..Len(kept) |-> get_implementation(kept[i])]

\* the path strings handle() and remove_completely() format
single_file_path(chosen_directory) ==
    LET pp == parse_path(chosen_directory) IN pp.dir \o <<pp.sep, "crabSafe.ts">>

split_dir_path(chosen_directory) ==
    LET pp == parse_path(chosen_directory) IN pp.dir \o <<pp.sep, "crabSafe">>

split_file_path(chosen_directory, f) ==
    LET pp == parse_path(chosen_directory)
    IN split_dir_path(chosen_directory) \o <<pp.sep, get_file_name(f)>>

remove_dir_path(chosen_directory) ==
    LET pp == parse_path(chosen_directory) IN pp.dir \o <<pp.sep, "crabSafe", pp.sep>>

\* one entry of the log of file-system calls
Ev(name, path, ok) == [call |-> name, path |-> path, ok |-> ok, arg |-> <<>>]

EvHandle(features) == [call |-> "handle", path |-> <<>>, ok |-> TRUE, arg |-> features]

RECURSIVE write_split_files(_, _, _, _, _)
\* the for loop of handle(): one fs::write per feature, stopping at the
\* first failure
write_split_files(pl, d, chosen_directory, features, lg) ==
    IF features = <<>> THEN [ok |-> TRUE, disk |-> d, log |-> lg]
    ELSE LET fin_file == Resolve(pl, split_file_path(chosen_directory, features[1]))
             w == fs_write(d, fin_file, get_implementation(features[1]))
             lg2 == Append(lg, Ev("write", fin_file, w.ok))
         IN IF ~w.ok THEN [ok |-> FALSE, disk |-> w.disk, log |-> lg2]
            ELSE write_split_files(pl, w.disk, chosen_directory, Tail(features), lg2)

\* the artifact step of handle(), before the settings are saved
handle_artifact(pl, d, choices, lg) ==
    LET features == get_feature_list(choices.feature_set)
    IN IF choices.modularity = "SingleFile"
       THEN LET fin_file == Resolve(pl, single_file_path(choices.chosen_directory))
                fin_string == gen_single_filedata(choices.runtime,
                                  single_relevant_files(choices.runtime, features))
                w == fs_write(d, fin_file, fin_string)
            IN [ok |-> w.ok, disk |-> w.disk,
                log |-> Append(lg, Ev("write", fin_file, w.ok))]
       ELSE LET fin_dir == Resolve(pl, split_dir_path(choices.chosen_directory))
                c == fs_create_dir(d, fin_dir)
                lg2 == Append(lg, Ev("create_dir", fin_dir, c.ok))
            IN IF ~c.ok THEN [ok |-> FALSE, disk |-> c.disk, log |-> lg2]
               ELSE write_split_files(pl, c.disk, choices.chosen_directory, features, lg2)

\* variant: the settings are saved whether or not the artifact was written
handle_saves_anyway(pl, d, choices, lg) ==
    LET a == handle_artifact(pl, d, choices,
                 Append(lg, EvHandle(get_feature_list(choices.feature_set))))
        s == save_settings(a.disk, choices)
    IN [ok |-> a.ok /\ s.ok, disk |-> s.disk,
        log |-> Append(a.log, Ev("save_settings", <<>>, s.ok))]

\* variant: the record lists the features that were written, so Parsers is
\* missing from it after a merged file for a runtime other than Deno
handle_saves_written(pl, d, choices, lg) ==
    LET features == get_feature_list(choices.feature_set)
        written == SelectSeq(features, LAMBDA f : f # "Parsers")
        recorded == IF /\ choices.modularity = "SingleFile"
                       /\ choices.runtime # "Deno"
                       /\ written # features
                    THEN [choices EXCEPT !.feature_set = Custom(written)]
                    ELSE choices
        a == handle_artifact(pl, d, choices, Append(lg, EvHandle(features)))
    IN IF ~a.ok THEN a
       ELSE LET s == save_settings(a.disk, recorded)
            IN [ok |-> s.ok, disk |-> s.disk,
                log |-> Append(a.log, Ev("save_settings", <<>>, s.ok))]

\* ProjectChoices::handle
handle(pl, d, choices, lg) ==
    LET a == handle_artifact(pl, d, choices,
                 Append(lg, EvHandle(get_feature_list(choices.feature_set))))
    IN IF ~a.ok THEN a
       ELSE LET s == save_settings(a.disk, choices)
            IN [ok |-> s.ok, disk |-> s.disk,
                log |-> Append(a.log, Ev("save_settings", <<>>, s.ok))]

(***************************************************************************)
(* settings_finder::remove_completely                                      *)
(***************************************************************************)
\* variant: the settings file is rewritten even when no key remains
remove_completely_keeps_file(pl, d, choices, lg) ==
    LET file_path == IF choices.modularity = "SingleFile"
                     THEN Resolve(pl, single_file_path(choices.chosen_directory))
                     ELSE Resolve(pl, remove_dir_path(choices.chosen_directory))
        res == IF choices.modularity = "SingleFile"
               THEN fs_remove_file(d, file_path)
               ELSE fs_remove_dir_all(d, file_path)
        lg2 == Append(lg, Ev(IF choices.modularity = "SingleFile"
                             THEN "remove_file" ELSE "remove_dir_all",
                             file_path, res.ok))
        d2 == res.disk
        remaining == [k \in DOMAIN d2.settings.doc \ {SETTINGS_KEY} |-> d2.settings.doc[k]]
    IN IF ~d2.settings.exists
       THEN [ok |-> FALSE, disk |-> d2, log |-> lg2]
       ELSE [ok |-> TRUE, disk |-> [d2 EXCEPT !.settings = SettingsFile(remaining)],
             log |-> Append(lg2, Ev("write_settings", <<>>, TRUE))]

remove_completely(pl, d, choices, lg) ==
    LET file_path == IF choices.modularity = "SingleFile"
                     THEN Resolve(pl, single_file_path(choices.chosen_directory))
                     ELSE Resolve(pl, remove_dir_path(choices.chosen_directory))
        res == IF choices.modularity = "SingleFile"
               THEN fs_remove_file(d, file_path)
               ELSE fs_remove_dir_all(d, file_path)
        lg2 == Append(lg, Ev(IF choices.modularity = "SingleFile"
                             THEN "remove_file" ELSE "remove_dir_all",
                             file_path, res.ok))
        d2 == res.disk
        remaining == [k \in DOMAIN d2.settings.doc \ {SETTINGS_KEY} |-> d2.settings.doc[k]]
    IN IF ~d2.settings.exists
       THEN [ok |-> FALSE, disk |-> d2, log |-> lg2]
       ELSE IF DOMAIN remaining = {}
       THEN [ok |-> TRUE, disk |-> [d2 EXCEPT !.settings = NoSettingsFile],
             log |-> Append(lg2, Ev("remove_settings_file", <<>>, TRUE))]
       ELSE [ok |-> TRUE, disk |-> [d2 EXCEPT !.settings = SettingsFile(remaining)],
             log |-> Append(lg2, Ev("write_settings", <<>>, TRUE))]

(***************************************************************************)
(* inquire_handler/other_times/mod.rs                                      *)
(***************************************************************************)
recreate(pl, d, s, lg) ==
    LET p == Resolve(pl, s)
        r == fs_remove_dir_all(d, p)
        lg2 == Append(lg, Ev("remove_dir_all", p, r.ok))
    IN IF ~r.ok THEN [ok |-> FALSE, disk |-> r.disk, log |-> lg2]
       ELSE LET c == fs_create_dir_all(r.disk, p)
            IN [ok |-> c.ok, disk |-> c.disk,
                log |-> Append(lg2, Ev("create_dir_all", p, c.ok))]

(***************************************************************************)
(* models/project_builder.rs                                               *)
(***************************************************************************)
Unset == [set |-> FALSE, val |-> <<>>]

ProjectBuilder_new ==
    [runtime |-> Unset, chosen_directory |-> Unset,
     feature_set |-> Unset, modularity |-> Unset]

set_runtime(b, chosen_runtime) ==
    [b EXCEPT !.runtime = [set |-> TRUE, val |-> chosen_runtime]]

set_chosen_dir(b, chosen_directory) ==
    [b EXCEPT !.chosen_directory = [set |-> TRUE, val |-> chosen_directory]]

set_feature_set(b, chosen_feature_set) ==
    [b EXCEPT !.feature_set = [set |-> TRUE, val |-> chosen_feature_set]]

set_modularity(b, modularity) ==
    [b EXCEPT !.modularity = [set |-> TRUE, val |-> modularity]]

\* variant: the fields are examined from the last to the first
build_last_field_first(b) ==
    IF ~b.modularity.set
    THEN [ok |-> FALSE, panic |-> "File modularity set not chosen", val |-> NoChoices.val]
    ELSE IF ~b.feature_set.set
    THEN [ok |-> FALSE, panic |-> "Feature set not inserted", val |-> NoChoices.val]
    ELSE IF ~b.chosen_directory.set
    THEN [ok |-> FALSE, panic |-> "Chosen directory not inserted", val |-> NoChoices.val]
    ELSE IF ~b.runtime.set
    THEN [ok |-> FALSE, panic |-> "Runtime not inserted", val |-> NoChoices.val]
    ELSE [ok |-> TRUE, panic |-> "",
          val |-> ProjectChoices(b.runtime.val, b.chosen_directory.val,
                                 b.feature_set.val, b.modularity.val)]

\* build: panics with the message of the first field that is not set
build(b) ==
    IF ~b.runtime.set
    THEN [ok |-> FALSE, panic |-> "Runtime not inserted", val |-> NoChoices.val]
    ELSE IF ~b.chosen_directory.set
    THEN [ok |-> FALSE, panic |-> "Chosen directory not inserted", val |-> NoChoices.val]
    ELSE IF ~b.feature_set.set
    THEN [ok |-> FALSE, panic |-> "Feature set not inserted", val |-> NoChoices.val]
    ELSE IF ~b.modularity.set
    THEN [ok |-> FALSE, panic |-> "File modularity set not chosen", val |-> NoChoices.val]
    ELSE [ok |-> TRUE, panic |-> "",
          val |-> ProjectChoices(b.runtime.val, b.chosen_directory.val,
                                 b.feature_set.val, b.modularity.val)]

\* first_time::inquire_main: the four answers through the builder
first_time_inquire_main(rt, dir, cf, md) ==
    build(set_modularity(set_feature_set(set_chosen_dir(
              set_runtime(ProjectBuilder_new, rt), dir), cf), md))

(***************************************************************************)
(* The runs of the program.  Every action is one whole run of main(): the  *)
(* answers of the user are its parameters.  op records the run that led to *)
(* the current state, pre the disk it started from, CHOICES the in-memory  *)
(* cell when it ended, outcome how it ended ("done" is the exit after      *)
(* printing Done!, "panic" an unwrap/expect that failed), log the          *)
(* file-system calls it made, in order.  op.picked is kept only for a run  *)
(* that went on to act: a declined run records no selection.  runs counts  *)
(* the runs so far.  builder, calls and ret belong to the specifications   *)
(* of the single functions further down: the builder under construction,   *)
(* the calls made so far and what the last call returned; the runs of the  *)
(* program leave them alone.                                               *)
(***************************************************************************)
\* the destination directory strings the user types or picks
ChosenDirs == { <<"proj">>, <<"proj", "/">> }

ProjectDir == << <<"proj">> >>

UserFile == << <<"proj">>, <<"main.ts">> >>

UserText == << <<"user_code">> >>

Platforms == {"unix", "windows"}

\* the runtimes the user answers with
RunRuntimes == Runtime

\* the ticked entries of a MultiSelect over the options, in option order
Ticked(options) ==
    {SelectSeqBy(options, S) :
        S \in {T \in SUBSET Range(options) : Cardinality(T) <= MaxPick}}

\* the Custom lists the user ticks in the first run (ask_feature_multichoice
\* returns the ticked entries in catalog order, possibly none)
FirstTimeCustom ==
    { <<>>, <<"Core">>, <<"Parsers">>, <<"Core", "Example">>, <<"Option", "Parsers">> }

\* what ask_feature_from can return: a preset, or the ticked features
FirstTimeFeatureSets ==
    {Preset(n) : n \in FeatureSet} \cup {Custom(l) : l \in FirstTimeCustom}

Op(name, config, picked, del_instead, confirm_del, confirm) ==
    [name |-> name, config |-> config, picked |-> picked,
     del_instead |-> del_instead, confirm_del |-> confirm_del, confirm |-> confirm]

\* the disk before the tool ever ran: the project directory with the
\* user's own file in it, no settings file
EmptyDisk ==
    [dirs |-> {<<>>, ProjectDir}, files |-> (UserFile :> UserText),
     settings |-> NoSettingsFile]

\* crabSafe values that are no ProjectChoices: a number, null, a record
\* without its modularity, a record with an unknown runtime
InvalidValues ==
    { JNum(42),
      JNull,
      JObj("runtime" :> ser_unit("Deno")
           @@ "chosen_directory" :> JStr(<<"proj", "/">>)
           @@ "feature_set" :> ser_feature_set(Preset("Core"))),
      JObj("runtime" :> ser_unit("Bun")
           @@ "chosen_directory" :> JStr(<<"proj", "/">>)
           @@ "feature_set" :> ser_feature_set(Preset("Core"))
           @@ "modularity" :> ser_unit("SingleFile")) }

\* records of an earlier installation whose artifact the user has since
\* deleted or renamed by hand
GoneRecords ==
    { ProjectChoices("ClientSide", <<"proj", "/">>, Preset("CorePlus"), "SingleFile"),
      ProjectChoices("Deno", <<"proj">>, Custom(<<"Parsers">>), "SplitFiles") }

\* the key of another tool that shares copy-paste.json
OtherKeys == "other" :> JNum(1)

WithKey(doc, value) ==
    [k \in DOMAIN doc \cup {SETTINGS_KEY} |->
        IF k = SETTINGS_KEY THEN value ELSE doc[k]]

\* The disk when the first run of a behaviour starts:
\*   "empty"    the tool never ran, there is no settings file;
\*   "invalid"  the crabSafe key holds something that is no configuration;
\*   "gone"     a valid record is there but its artifact is not.
Origins ==
    {[origin |-> "empty", settings |-> NoSettingsFile]}
    \cup {[origin |-> "invalid", settings |-> SettingsFile(WithKey(EmptyObject, v))] :
             v \in InvalidValues}
    \cup {[origin |-> "gone", settings |-> SettingsFile(WithKey(doc, to_value(c)))] :
             doc \in {EmptyObject, OtherKeys}, c \in GoneRecords}

Init ==
    /\ platform \in Platforms
    /\ \E o \in Origins :
          /\ origin = o.origin
          /\ disk = [EmptyDisk EXCEPT !.settings = o.settings]
    /\ pre = disk
    /\ CHOICES = NoChoices
    /\ op = Op("init", NoChoices.val, <<>>, FALSE, FALSE, FALSE)
    /\ outcome = "done"
    /\ log = <<>>
    /\ runs = 0
    /\ builder = ProjectBuilder_new
    /\ calls = <<>>
    /\ ret = <<>>

\* the state a run leaves behind
RunEnds(o, choices, r, how) ==
    /\ runs < MaxRuns
    /\ runs' = runs + 1
    /\ op' = o
    /\ CHOICES' = choices
    /\ disk' = r.disk
    /\ log' = r.log
    /\ outcome' = how
    /\ pre' = disk
    /\ UNCHANGED <<platform, origin, builder, calls, ret>>

\* variant: a run that does nothing drops the settings file all the same
UntouchedButSettings ==
    [ok |-> TRUE, disk |-> [disk EXCEPT !.settings = NoSettingsFile], log |-> <<>>]

Untouched == [ok |-> TRUE, disk |-> disk, log |-> <<>>]

\* The runs take the way a run ends as a parameter: RunEnds, or RunStops for a
\* process that stops between two of its file-system calls.

\* main(), None branch: first_time::inquire_main then handle().unwrap()
first_run(End(_, _, _, _)) ==
    /\ find_settings(disk).res = "none"
    /\ \E rt \in RunRuntimes, dir \in ChosenDirs, cf \in FirstTimeFeatureSets,
          md \in Modularity :
          /\ fs_metadata(disk, Resolve(platform, dir))
          /\ LET b == first_time_inquire_main(rt, dir, cf, md)
                 h == handle(platform, disk, b.val, <<>>)
             IN /\ b.ok
                /\ End(Op("first", b.val, <<>>, FALSE, FALSE, FALSE),
                           NoChoices, h, IF h.ok THEN "done" ELSE "panic")

\* main(): find_settings().unwrap() on an invalid crabSafe value
MainLoadError ==
    /\ find_settings(disk).res = "err"
    /\ RunEnds(Op("load_err", NoChoices.val, <<>>, FALSE, FALSE, FALSE),
               NoChoices, Untouched, "panic")

\* Modify Package / Add package.  The options are the complement in the
\* arbitrary order of a HashSet, so the picked features come in any order.
\* The result of handle() is dropped.  With nothing left to offer the prompt
\* has no options: MultiSelect::prompt returns an error and expect() panics.
add_run(End(_, _, _, _)) ==
    /\ find_settings(disk).res = "some"
    /\ LET project_choices == find_settings(disk).val
           init_features == get_feature_list(project_choices.feature_set)
       IN \E picked \in PicksFrom(get_complements(init_features)) :
             /\ \/ /\ get_complements(init_features) = {}
                   /\ End(Op("add", project_choices, <<>>, FALSE, FALSE, FALSE),
                              SomeChoices(project_choices), Untouched, "panic")
                \/ /\ get_complements(init_features) # {}
                   /\ End(Op("add", project_choices, <<>>, FALSE, FALSE, FALSE),
                              SomeChoices(project_choices), Untouched, "done")
                \/ /\ get_complements(init_features) # {}
                   /\ LET features == init_features \o picked
                          changed == [project_choices EXCEPT !.feature_set = Custom(features)]
                          h == handle(platform, disk, changed, <<>>)
                      IN End(Op("add", project_choices, picked, FALSE, FALSE, TRUE),
                                 SomeChoices(changed), h, "done")

\* the body of handle_delete_crabsafe once CHOICES holds project_choices
delete_crabsafe(End(_, _, _, _), o, project_choices, confirm_del) ==
    IF confirm_del
    THEN LET r == remove_completely(platform, disk, project_choices, <<>>)
         IN End(o, SomeChoices(project_choices), r,
                    IF r.ok THEN "done" ELSE "panic")
    ELSE End(o, SomeChoices(project_choices), Untouched, "done")

\* Delete crabSafe
delete_run(End(_, _, _, _)) ==
    /\ find_settings(disk).res = "some"
    /\ LET project_choices == find_settings(disk).val
       IN \E confirm_del \in BOOLEAN :
             delete_crabsafe(End, Op("delete", project_choices, <<>>, FALSE, confirm_del, FALSE),
                             project_choices, confirm_del)

\* Modify Package / Remove package.  A configuration without features
\* gives the prompt no options: MultiSelect::prompt returns an error and
\* expect() panics.
remove_run(End(_, _, _, _)) ==
    /\ find_settings(disk).res = "some"
    /\ LET project_choices == find_settings(disk).val
           init_features == get_feature_list(project_choices.feature_set)
       IN \E picked \in Ticked(init_features) :
             LET selected_features == Range(picked)
                 features == SelectSeqBy(init_features, Feature \ selected_features)
                 changed == [project_choices EXCEPT !.feature_set = Custom(features)]
             IN \/ /\ init_features = <<>>
                   /\ End(Op("remove", project_choices, <<>>, FALSE, FALSE, FALSE),
                              SomeChoices(project_choices), Untouched, "panic")
                \* no feature left and "delete the whole package instead": yes
                \/ /\ init_features # <<>>
                   /\ Len(features) = 0
                   /\ \E confirm_del \in BOOLEAN :
                         delete_crabsafe(End, Op("remove", project_choices,
                                            IF confirm_del THEN picked ELSE <<>>,
                                            TRUE, confirm_del, FALSE),
                                         project_choices, confirm_del)
                \* otherwise the overwrite confirmation: no
                \/ /\ init_features # <<>>
                   /\ End(Op("remove", project_choices, <<>>, FALSE, FALSE, FALSE),
                              SomeChoices(project_choices), Untouched, "done")
                \* otherwise the overwrite confirmation: yes
                \/ /\ init_features # <<>>
                   /\ LET rec == IF project_choices.modularity = "SplitFiles"
                                 THEN recreate(platform, disk,
                                               project_choices.chosen_directory, <<>>)
                                 ELSE Untouched
                      IN IF ~rec.ok
                         THEN End(Op("remove", project_choices, picked, FALSE, FALSE, TRUE),
                                      SomeChoices(changed), rec, "panic")
                         ELSE End(Op("remove", project_choices, picked, FALSE, FALSE, TRUE),
                                      SomeChoices(changed),
                                      handle(platform, rec.disk, changed, rec.log), "done")

MainFirstTime == first_run(RunEnds)

handle_add == add_run(RunEnds)

handle_delete_crabsafe == delete_run(RunEnds)

handle_delete_package == remove_run(RunEnds)

Next ==
    \/ MainFirstTime
    \/ MainLoadError
    \/ handle_add
    \/ handle_delete_crabsafe
    \/ handle_delete_package

Spec == Init /\ [][Next]_vars

(***************************************************************************)
(* Vocabulary of the properties                                            *)
(***************************************************************************)
\* the keys of the settings document that are not this tool's
Others(st) == [k \in DOMAIN st.doc \ {SETTINGS_KEY} |-> st.doc[k]]

HasRecord(d) == d.settings.exists /\ SETTINGS_KEY \in DOMAIN d.settings.doc

Loaded(c) == [res |-> "some", val |-> c]

Logged(name) == \E i \in 1..Len(log) : log[i].call = name

LoggedOk(name) == \E i \in 1..Len(log) : log[i].call = name /\ log[i].ok

\* the artifact of configuration c is on disk d where handle() puts it:
\* crabSafe.ts, or the crabSafe directory and a file for every feature
ArtifactExists(d, c) ==
    IF c.modularity = "SingleFile"
    THEN IsFile(d, Resolve(platform, single_file_path(c.chosen_directory)))
    ELSE /\ IsDir(d, Resolve(platform, split_dir_path(c.chosen_directory)))
         /\ \A f \in Range(get_feature_list(c.feature_set)) :
               IsFile(d, Resolve(platform, split_file_path(c.chosen_directory, f)))

\* nothing of the artifact of c is on disk d
ArtifactAbsent(d, c) ==
    IF c.modularity = "SingleFile"
    THEN ~fs_metadata(d, Resolve(platform, single_file_path(c.chosen_directory)))
    ELSE /\ ~fs_metadata(d, Resolve(platform, split_dir_path(c.chosen_directory)))
         /\ \A f \in Range(get_feature_list(c.feature_set)) :
               ~fs_metadata(d, Resolve(platform, split_file_path(c.chosen_directory, f)))

\* the artifact of c is on disk d with the content materialize gives it
ArtifactHolds(d, c) ==
    LET features == get_feature_list(c.feature_set)
    IN /\ ArtifactExists(d, c)
       /\ IF c.modularity = "SingleFile"
          THEN d.files[Resolve(platform, single_file_path(c.chosen_directory))]
                  = gen_single_filedata(c.runtime, single_relevant_files(c.runtime, features))
          ELSE \A f \in Range(features) :
                  d.files[Resolve(platform, split_file_path(c.chosen_directory, f))]
                     = get_implementation(f)

\* everything on disk d that the tool put there: all but the working
\* directory, the project directory and the user's own file
ArtifactPart(d) ==
    [dirs |-> d.dirs \ EmptyDisk.dirs,
     files |-> [q \in DOMAIN d.files \ {UserFile} |-> d.files[q]]]

\* a zero-feature artifact of c: an empty crabSafe.ts, or a crabSafe
\* directory without any file
ZeroFeatureArtifact(d, c) ==
    IF c.modularity = "SingleFile"
    THEN LET q == Resolve(platform, single_file_path(c.chosen_directory))
         IN IsFile(d, q) /\ d.files[q] = EmptyStr
    ELSE LET q == Resolve(platform, split_dir_path(c.chosen_directory))
         IN IsDir(d, q) /\ ~\E r \in DOMAIN d.files : IsPrefix(q, r)

\* the features Remove package keeps, from the run's record
Remainder == SelectSeqBy(get_feature_list(op.config.feature_set),
                         Feature \ Range(op.picked))

WithFeatures(c, list) == [c EXCEPT !.feature_set = Custom(list)]

(***************************************************************************)
(* C1: Remove package never yields a zero-feature artifact.  In a          *)
(* behaviour that started from the empty disk, when a run of Remove        *)
(* package on a configuration with at least one feature leaves no feature, *)
(* handle() is not called with an empty feature list, no zero-feature      *)
(* artifact and no Custom([]) record is on disk afterwards, and the run    *)
(* either changed nothing or removed the record.                           *)
(***************************************************************************)
C1_NoZeroFeatureArtifact ==
    (/\ origin = "empty"
     /\ op.name = "remove"
     /\ get_feature_list(op.config.feature_set) # <<>>
     /\ op.picked # <<>>
     /\ Remainder = <<>>)
    => /\ ~\E i \in 1..Len(log) : log[i].call = "handle" /\ log[i].arg = <<>>
       /\ ~ZeroFeatureArtifact(disk, op.config)
       /\ ~(HasRecord(disk) /\ find_settings(disk).res = "some"
            /\ find_settings(disk).val.feature_set = Custom(<<>>))
       /\ (disk = pre \/ ~HasRecord(disk))

(***************************************************************************)
(* C2: Settings/disk consistency.  In every state of a behaviour that      *)
(* started from the empty disk, if the settings document holds a valid     *)
(* crabSafe record then the artifact that record designates is on disk:    *)
(* crabSafe.ts, or the crabSafe directory with a file per recorded feature.*)
(***************************************************************************)
C2_RecordHasArtifact ==
    (origin = "empty" /\ HasRecord(disk))
    => /\ find_settings(disk).res = "some"
       /\ ArtifactExists(disk, find_settings(disk).val)

\* a run of Remove package that rewrote artifact and record
C2_Witness ==
    /\ origin = "empty"
    /\ op.name = "remove" /\ op.confirm /\ LoggedOk("save_settings")
    /\ HasRecord(disk)
    /\ op.config.modularity = "SplitFiles"

(***************************************************************************)
(* C3: Add package re-materializes to the union in both modularities.  In  *)
(* a behaviour that started from the empty disk, after a confirmed Add     *)
(* package with at least one picked feature, on a                          *)
(* disk holding the artifact as materialize wrote it, the configuration is *)
(* Custom(current features followed by the picked ones), the artifact on   *)
(* disk is the one materialize writes for that list, and the settings      *)
(* record holds that list.                                                 *)
(***************************************************************************)
C3_AddRematerializes ==
    (/\ origin = "empty"
     /\ op.name = "add" /\ op.confirm /\ op.picked # <<>>
     /\ ArtifactHolds(pre, op.config))
    => LET union == get_feature_list(op.config.feature_set) \o op.picked
           c == WithFeatures(op.config, union)
       IN /\ CHOICES = SomeChoices(c)
          /\ ArtifactHolds(disk, c)
          /\ find_settings(disk) = Loaded(c)

(***************************************************************************)
(* C4: Remove package leaves no stale module.  In a behaviour that started *)
(* from the empty disk, after a confirmed Remove package with a non-empty  *)
(* remainder the configuration is                                          *)
(* Custom(remainder), the remaining features in their original order, and  *)
(* what the tool has on disk is exactly what materializing that            *)
(* configuration into the empty destination produces.                      *)
(***************************************************************************)
C4_RemoveLeavesNoStaleModule ==
    (origin = "empty" /\ op.name = "remove" /\ op.confirm /\ Remainder # <<>>)
    => LET c == WithFeatures(op.config, Remainder)
       IN /\ CHOICES = SomeChoices(c)
          /\ ArtifactPart(disk)
                = ArtifactPart(handle_artifact(platform, EmptyDisk, c, <<>>).disk)

\* the configuration a run handed to handle()
Handled == IF op.name = "first" THEN op.config ELSE CHOICES.val

\* the run removed the crabSafe key (remove_completely reached its end)
KeyRemoved == Logged("remove_settings_file") \/ Logged("write_settings")

(***************************************************************************)
(* C5: Settings-file key isolation.  A run that saves the configuration    *)
(* leaves every key other than crabSafe with its value; a run that removes *)
(* the crabSafe key leaves every other key with its value as well and,     *)
(* when there is such a key, the file is still there and holds exactly     *)
(* those keys.                                                             *)
(***************************************************************************)
C5_KeyIsolation ==
    /\ LoggedOk("save_settings")
          => /\ disk.settings.exists
             /\ Others(disk.settings) = Others(pre.settings)
    /\ KeyRemoved
          => /\ Others(disk.settings) = Others(pre.settings)
             /\ (DOMAIN Others(pre.settings) # {}
                    => /\ disk.settings.exists
                       /\ disk.settings.doc = Others(pre.settings))

\* the second run removes the key from a document another tool shares
C5_Witness ==
    /\ KeyRemoved
    /\ runs = 2
    /\ disk.settings.exists
    /\ disk.settings.doc = OtherKeys

(***************************************************************************)
(* C6: Round trip.  After any run that saved a configuration, whatever the *)
(* settings file held before, find_settings returns exactly that           *)
(* configuration.                                                          *)
(***************************************************************************)
C6_RoundTrip ==
    LoggedOk("save_settings") => find_settings(disk) = Loaded(Handled)

\* saved over an older record in a document with another tool's key
C6_Witness ==
    /\ LoggedOk("save_settings")
    /\ HasRecord(pre)
    /\ DOMAIN Others(pre.settings) # {}
    /\ Handled.feature_set.tag = "Custom"
    /\ Handled.chosen_directory = <<"proj", "/">>

(***************************************************************************)
(* C7: Removing the key deletes the settings file exactly when nothing     *)
(* else uses it.  After the crabSafe key was removed the key is gone; the  *)
(* file no longer exists if no other key remained, and otherwise it exists *)
(* and holds the remaining keys.                                           *)
(***************************************************************************)
C7_RemoveKeyDeletesFileIffEmpty ==
    KeyRemoved
    => /\ ~HasRecord(disk)
       /\ disk.settings.exists <=> (DOMAIN Others(pre.settings) # {})
       /\ disk.settings.exists => disk.settings.doc = Others(pre.settings)

\* the key was the only one: the file is gone
C7_Witness ==
    /\ KeyRemoved
    /\ HasRecord(pre)
    /\ DOMAIN Others(pre.settings) = {}
    /\ ~disk.settings.exists

(***************************************************************************)
(* C8: find_settings tells absent from malformed.  It returns none when    *)
(* the file is absent or has no crabSafe key, the configuration that the   *)
(* key's value spells when it is one, and an error, never none, when the   *)
(* key holds anything else such as 42; a run that ends on that error       *)
(* leaves the disk as it was.                                              *)
(***************************************************************************)
C8_LoadTellsAbsentFromMalformed ==
    LET r == find_settings(disk)
    IN /\ ~disk.settings.exists => r.res = "none"
       /\ (disk.settings.exists /\ ~HasRecord(disk)) => r.res = "none"
       /\ HasRecord(disk)
             => /\ r.res # "none"
                /\ disk.settings.doc[SETTINGS_KEY] \in InvalidValues <=> r.res = "err"
                /\ r.res = "some" => to_value(r.val) = disk.settings.doc[SETTINGS_KEY]
       /\ op.name = "load_err"
             => /\ outcome = "panic"
                /\ disk = pre
                /\ r.res = "err"

\* a run that found the number 42 under the key
C8_Witness ==
    /\ op.name = "load_err"
    /\ disk.settings.doc[SETTINGS_KEY] = JNum(42)

\* a run deleted the whole installation
Deleted == (op.name = "delete" \/ (op.name = "remove" /\ op.del_instead)) /\ op.confirm_del

(***************************************************************************)
(* C9: Deleting treats an absent artifact as success.  In a behaviour that *)
(* started from the empty disk, a confirmed deletion does not fail, and    *)
(* afterwards nothing of the artifact is on disk, the crabSafe key is gone *)
(* and find_settings returns none.                                         *)
(***************************************************************************)
C9_DeleteLeavesNothing ==
    (origin = "empty" /\ Deleted)
    => /\ outcome = "done"
       /\ ArtifactAbsent(disk, op.config)
       /\ ~HasRecord(disk)
       /\ find_settings(disk).res = "none"

(***************************************************************************)
(* C10: SplitFiles materialize never merges into an existing directory.    *)
(* When handle() runs in SplitFiles mode and the crabSafe directory is     *)
(* already there, it stops at create_dir with an error: no file is         *)
(* written, the settings are not saved, the disk stays as it was.  In      *)
(* SingleFile mode with crabSafe.ts already there it overwrites the file   *)
(* and saves the settings.                                                 *)
(***************************************************************************)
C10_SplitNeverMerges ==
    /\ (/\ op.name = "first" \/ (op.name = "add" /\ op.confirm)
        /\ Handled.modularity = "SplitFiles"
        /\ fs_metadata(pre, Resolve(platform, split_dir_path(Handled.chosen_directory))))
       => /\ log = << EvHandle(get_feature_list(Handled.feature_set)),
                      Ev("create_dir",
                         Resolve(platform, split_dir_path(Handled.chosen_directory)),
                         FALSE) >>
          /\ disk = pre
          /\ op.name = "first" => outcome = "panic"
    /\ \A i \in 1..Len(log) :
          (log[i].call = "create_dir" /\ ~log[i].ok)
          => /\ i = Len(log)
             /\ disk.settings = pre.settings
             /\ ArtifactPart(disk) = ArtifactPart(pre)
    /\ (/\ Logged("handle")
        /\ Handled.modularity = "SingleFile"
        /\ IsFile(pre, Resolve(platform, single_file_path(Handled.chosen_directory))))
       => /\ LoggedOk("write")
          /\ ArtifactHolds(disk, Handled)
          /\ find_settings(disk) = Loaded(Handled)

\* Add package in SplitFiles mode found the directory of the first run
C10_Witness ==
    /\ op.name = "add" /\ op.confirm /\ op.picked # <<>>
    /\ Handled.modularity = "SplitFiles"
    /\ ArtifactHolds(pre, op.config)
    /\ \E i \in 1..Len(log) : log[i].call = "create_dir" /\ ~log[i].ok

(***************************************************************************)
(* The builder on its own: any setters in any order, then build().  calls  *)
(* is the list of setter calls made, ret what build() gave (NotBuilt       *)
(* before it is called).  The variables of the runs stay as they are       *)
(* before the first run.                                                   *)
(***************************************************************************)
\* number of setter calls before build()
MaxCalls == 4

progVars == <<platform, origin, disk, pre, CHOICES, op, outcome, log, runs>>

\* no run of the program has happened
NoRun ==
    /\ platform = "unix"
    /\ origin = "empty"
    /\ disk = EmptyDisk
    /\ pre = disk
    /\ CHOICES = NoChoices
    /\ op = Op("init", NoChoices.val, <<>>, FALSE, FALSE, FALSE)
    /\ outcome = "done"
    /\ log = <<>>
    /\ runs = 0

NotBuilt == [ok |-> FALSE, panic |-> "", val |-> NoChoices.val]

BuilderRuntimes == {"Deno", "NodeJs"}

BuilderFeatureSets == {Preset("All"), Custom(<<"Core">>)}

BuilderInit ==
    /\ NoRun
    /\ builder = ProjectBuilder_new
    /\ calls = <<>>
    /\ ret = NotBuilt

\* one setter call: the builder moves into the setter and comes back
Setter(fn, arg, b) ==
    /\ ret = NotBuilt
    /\ Len(calls) < MaxCalls
    /\ builder' = b
    /\ calls' = Append(calls, [fn |-> fn, arg |-> arg])
    /\ UNCHANGED <<ret, progVars>>

SetRuntime ==
    \E v \in BuilderRuntimes : Setter("set_runtime", v, set_runtime(builder, v))

SetChosenDir ==
    \E v \in ChosenDirs : Setter("set_chosen_dir", v, set_chosen_dir(builder, v))

SetFeatureSet ==
    \E v \in BuilderFeatureSets : Setter("set_feature_set", v, set_feature_set(builder, v))

SetModularity ==
    \E v \in Modularity : Setter("set_modularity", v, set_modularity(builder, v))

\* build() consumes the builder
Build ==
    /\ ret = NotBuilt
    /\ ret' = build(builder)
    /\ UNCHANGED <<builder, calls, progVars>>

BuilderNext == SetRuntime \/ SetChosenDir \/ SetFeatureSet \/ SetModularity \/ Build

BuilderSpec == BuilderInit /\ [][BuilderNext]_vars

\* the calls of one setter, in the order they were made
SetterCalls(fn) == SelectSeq(calls, LAMBDA c : c.fn = fn)

WasSet(fn) == SetterCalls(fn) # <<>>

LastArg(fn) == Last(SetterCalls(fn)).arg

(***************************************************************************)
(* C11: Builder completeness.  Whatever setters were called, in whatever   *)
(* order and however often, build() either fails with the message of the   *)
(* first field, in the order runtime, destination, feature set,            *)
(* modularity, that no setter call has set, or, when all four were set,    *)
(* returns the configuration made of the last value given to each setter;  *)
(* it never returns a configuration when a field was not set.              *)
(***************************************************************************)
C11_BuilderCompleteness ==
    ret # NotBuilt
    => /\ ret.ok <=> (/\ WasSet("set_runtime") /\ WasSet("set_chosen_dir")
                      /\ WasSet("set_feature_set") /\ WasSet("set_modularity"))
       /\ ret.ok => ret.val = ProjectChoices(LastArg("set_runtime"),
                                             LastArg("set_chosen_dir"),
                                             LastArg("set_feature_set"),
                                             LastArg("set_modularity"))
       /\ ~ret.ok =>
             ret.panic =
                IF ~WasSet("set_runtime") THEN "Runtime not inserted"
                ELSE IF ~WasSet("set_chosen_dir") THEN "Chosen directory not inserted"
                ELSE IF ~WasSet("set_feature_set") THEN "Feature set not inserted"
                ELSE "File modularity set not chosen"

\* runtime set twice, destination and feature set once, modularity never
C11_Witness ==
    /\ ret # NotBuilt
    /\ ~ret.ok
    /\ ret.panic = "File modularity set not chosen"
    /\ Len(SetterCalls("set_runtime")) = 2
    /\ LastArg("set_runtime") # SetterCalls("set_runtime")[1].arg

(***************************************************************************)
(* handle() on its own: one call on the disk before the first run, for     *)
(* every configuration a settings record or the prompts can give it.       *)
(***************************************************************************)
\* longest Custom feature list
MaxFeatures == 3

\* destination strings: bare, with a trailing "/" or "\", with a leading "./"
MaterializeDirs ==
    { <<"proj">>, <<"proj", "/">>, <<"proj", "\\">>, <<".", "/", "proj">> }

FeatureLists == {l \in SeqsUpTo(Feature, MaxFeatures) : NoDup(l)}

MaterializeConfigs ==
    {ProjectChoices(rt, dir, cf, md) :
        rt \in Runtime, dir \in MaterializeDirs,
        cf \in {Preset(n) : n \in FeatureSet} \cup {Custom(l) : l \in FeatureLists},
        md \in Modularity}

MaterializeInit ==
    /\ platform \in Platforms
    /\ origin = "empty"
    /\ disk = EmptyDisk
    /\ pre = disk
    /\ CHOICES = NoChoices
    /\ op = Op("init", NoChoices.val, <<>>, FALSE, FALSE, FALSE)
    /\ outcome = "done"
    /\ log = <<>>
    /\ runs = 0
    /\ builder = ProjectBuilder_new
    /\ calls = <<>>
    /\ ret = <<>>

\* project_choices.handle() with a destination that names a directory
Materialize ==
    /\ runs = 0
    /\ \E c \in MaterializeConfigs :
          /\ IsDir(disk, Resolve(platform, c.chosen_directory))
          /\ LET h == handle(platform, disk, c, <<>>)
             IN RunEnds(Op("materialize", c, <<>>, FALSE, FALSE, FALSE),
                        NoChoices, h, IF h.ok THEN "done" ELSE "error")

MaterializeNext == Materialize

MaterializeSpec == MaterializeInit /\ [][MaterializeNext]_vars

\* the merged file handle() wrote for op.config
MergedFile == disk.files[Resolve(platform, single_file_path(op.config.chosen_directory))]

\* no import line of the text contains the token
NoImportWith(text, tok) ==
    \A i \in 1..Len(text) : IsImportLine(text[i]) => ~Contains(text[i], tok)

(***************************************************************************)
(* C12: SingleFile Deno-only exclusion.  After a successful SingleFile     *)
(* handle(), for every feature list: with a runtime other than Deno the    *)
(* merged file holds no line of the Parsers payload and no import line     *)
(* with http; with any runtime it holds no import line with "./ ; with     *)
(* Deno and Parsers in the list it holds the body of the Parsers payload   *)
(* and its http import line.                                               *)
(***************************************************************************)
C12_SingleFileDenoOnly ==
    (op.name = "materialize" /\ outcome = "done" /\ op.config.modularity = "SingleFile")
    => /\ op.config.runtime # "Deno"
             => /\ \A i \in 1..Len(PARSERS) :
                      ~IsBlank(PARSERS[i]) => PARSERS[i] \notin Range(MergedFile)
                /\ NoImportWith(MergedFile, "http")
       /\ NoImportWith(MergedFile, "\"./")
       /\ (/\ op.config.runtime = "Deno"
           /\ "Parsers" \in Range(get_feature_list(op.config.feature_set)))
             => \A i \in 1..Len(PARSERS) :
                   ~IsBlank(PARSERS[i]) => PARSERS[i] \in Range(MergedFile)

\* NodeJs with Core, Option and Parsers chosen
C12_Witness ==
    /\ op.name = "materialize" /\ outcome = "done"
    /\ op.config.modularity = "SingleFile"
    /\ op.config.runtime = "NodeJs"
    /\ op.config.feature_set = Custom(<<"Core", "Option", "Parsers">>)
    /\ <<"core_body">> \in Range(MergedFile)

\* the directory handle() created in SplitFiles mode for op.config
SplitDir == Resolve(platform, split_dir_path(op.config.chosen_directory))

\* the files directly inside directory p of disk d
FilesIn(d, p) == {q \in DOMAIN d.files : Len(q) = Len(p) + 1 /\ Front(q) = p}

(***************************************************************************)
(* C13: SplitFiles writes one untouched file per feature, whatever the     *)
(* runtime.  After a successful SplitFiles handle() the crabSafe directory *)
(* it created holds exactly one file for every feature of the list, under  *)
(* the feature's catalog file name and with the payload as it is;          *)
(* parsers.ts is among them whenever Parsers is in the list.               *)
(***************************************************************************)
C13_SplitOneFilePerFeature ==
    (op.name = "materialize" /\ outcome = "done" /\ op.config.modularity = "SplitFiles")
    => LET features == get_feature_list(op.config.feature_set)
       IN /\ IsDir(disk, SplitDir)
          /\ FilesIn(disk, SplitDir)
                = {Append(SplitDir, <<get_file_name(f)>>) : f \in Range(features)}
          /\ \A f \in Range(features) :
                disk.files[Append(SplitDir, <<get_file_name(f)>>)] = get_implementation(f)

\* a file-system call of handle() failed in the last run
HandleFailed ==
    \E i \in 1..Len(log) :
       log[i].call \in {"write", "create_dir", "save_settings"} /\ ~log[i].ok

(***************************************************************************)
(* C18: Artifact location.  For every destination string, with or without  *)
(* a trailing separator and with or without a separator inside, a          *)
(* successful handle() leaves the SingleFile artifact at crabSafe.ts       *)
(* directly under the destination directory, and the SplitFiles artifact   *)
(* as the directory crabSafe under the destination directory with each     *)
(* feature's file directly inside it.                                      *)
(***************************************************************************)
C18_ArtifactUnderDestination ==
    (op.name = "materialize" /\ outcome = "done")
    => LET destination == Resolve(platform, op.config.chosen_directory)
           features == get_feature_list(op.config.feature_set)
       IN IF op.config.modularity = "SingleFile"
          THEN IsFile(disk, Append(destination, <<"crabSafe.ts">>))
          ELSE /\ IsDir(disk, Append(destination, <<"crabSafe">>))
               /\ \A f \in Range(features) :
                     IsFile(disk, Append(Append(destination, <<"crabSafe">>),
                                         <<get_file_name(f)>>))

(***************************************************************************)
(* C14: Errors always surface.  In a behaviour that started from the empty *)
(* disk, a run in which handle() failed, find_settings failed or           *)
(* remove_completely failed ends in a panic and not with Done!; this holds *)
(* for the first run and for Add package, Remove package and Delete.       *)
(***************************************************************************)
C14_ErrorsSurface ==
    (/\ origin = "empty"
     /\ \/ HandleFailed
        \/ op.name = "load_err"
        \/ Deleted /\ ~KeyRemoved)
    => outcome = "panic"

(***************************************************************************)
(* A process that stops.  The file-system calls of a run happen one after  *)
(* the other; a process that is killed between two of them leaves the disk *)
(* as the calls made so far left it.                                       *)
(***************************************************************************)
\* the text handle() writes to path p for configuration c
WrittenText(pl, c, p) ==
    LET features == get_feature_list(c.feature_set)
    IN IF c.modularity = "SingleFile"
       THEN gen_single_filedata(c.runtime, single_relevant_files(c.runtime, features))
       ELSE get_implementation(
               CHOOSE f \in Range(features) :
                  Resolve(pl, split_file_path(c.chosen_directory, f)) = p)

\* the disk after one logged call of a run that works on configuration c
ApplyEv(pl, d, c, ev) ==
    CASE ev.call = "handle" -> d
      [] ev.call = "write" -> fs_write(d, ev.path, WrittenText(pl, c, ev.path)).disk
      [] ev.call = "create_dir" -> fs_create_dir(d, ev.path).disk
      [] ev.call = "create_dir_all" -> fs_create_dir_all(d, ev.path).disk
      [] ev.call = "remove_dir_all" -> fs_remove_dir_all(d, ev.path).disk
      [] ev.call = "remove_file" -> fs_remove_file(d, ev.path).disk
      [] ev.call = "save_settings" -> save_settings(d, c).disk
      [] ev.call = "remove_settings_file" -> [d EXCEPT !.settings = NoSettingsFile]
      [] ev.call = "write_settings" ->
            [d EXCEPT !.settings =
                SettingsFile([k \in DOMAIN d.settings.doc \ {SETTINGS_KEY} |->
                                 d.settings.doc[k]])]

RECURSIVE Replay(_, _, _, _)
\* the disk after the calls of lg, made in order on disk d (the disk in
\* between and the calls still to make are bound as elements of singleton
\* sets, so that each is computed once)
Replay(pl, d, c, lg) ==
    IF lg = <<>> THEN d
    ELSE CHOOSE r \in {Replay(pl, n, c, rest) :
                          n \in {ApplyEv(pl, d, c, lg[1])}, rest \in {Tail(lg)}} : TRUE

\* the run that would have ended with r stops after k of its calls, with at
\* least one call made and at least one still to make; a behaviour is
\* followed up to its first stopped run
RunStops(o, choices, r, how) ==
    /\ runs < MaxRuns
    /\ \E full \in {r.log} :
          \E k \in 1..(Len(full) - 1) :
             \E made \in {SubSeq(full, 1, k)} :
                /\ disk' = Replay(platform, disk,
                                  IF choices.some THEN choices.val ELSE o.config, made)
                /\ log' = made
    /\ runs' = MaxRuns
    /\ op' = o
    /\ CHOICES' = choices
    /\ outcome' = "stopped"
    /\ pre' = disk
    /\ UNCHANGED <<platform, origin, builder, calls, ret>>

MainFirstTimeStops == first_run(RunStops)

handle_add_stops == add_run(RunStops)

handle_delete_crabsafe_stops == delete_run(RunStops)

handle_delete_package_stops == remove_run(RunStops)

\* an installation by a complete first run, or a run that stops
StopNext ==
    \/ MainFirstTime
    \/ MainFirstTimeStops
    \/ handle_add_stops
    \/ handle_delete_crabsafe_stops
    \/ handle_delete_package_stops

StopSpec == Init /\ [][StopNext]_vars

\* a settings record on disk d has its artifact on disk d
RecordHasArtifact(d) ==
    HasRecord(d) => /\ find_settings(d).res = "some"
                    /\ ArtifactExists(d, find_settings(d).val)

(***************************************************************************)
(* C15: Crash safety of the paired mutations.  In a behaviour that started *)
(* from the empty disk, when a run that began on a disk where the settings *)
(* record, if any, has its artifact stops between two of its file-system   *)
(* calls, the disk it leaves has no settings record whose artifact is      *)
(* missing.                                                                *)
(***************************************************************************)
C15_StoppedRunKeepsArtifact ==
    (origin = "empty" /\ outcome = "stopped" /\ RecordHasArtifact(pre))
    => RecordHasArtifact(disk)

(***************************************************************************)
(* The catalog functions on their own: FeatureSet::get_feature_list,       *)
(* ChosenFeatures::get_feature_list and Feature::get_complements are pure, *)
(* so calls holds only the call just made and ret what it returned.        *)
(***************************************************************************)
\* length of the feature lists given to the catalog functions
MaxList == 2

\* the orders in which the elements of a HashSet can be iterated: each
\* element once, in any order
Orders(S) == {s \in [1..Cardinality(S) -> S] : Range(s) = S}

CatalogInit ==
    /\ NoRun
    /\ builder = ProjectBuilder_new
    /\ calls = <<>>
    /\ ret = <<>>

\* cf.get_feature_list() on a preset or on a custom list, repeats allowed
ResolveFeatures ==
    \E cf \in {Preset(n) : n \in FeatureSet}
                \cup {Custom(l) : l \in SeqsUpTo(Feature, MaxList)} :
        /\ calls' = <<[fn |-> "get_feature_list", arg |-> cf]>>
        /\ ret' = get_feature_list(cf)
        /\ UNCHANGED <<builder, progVars>>

\* Feature::get_complements(&included): the set collected into a Vec
Complements ==
    \E included \in SeqsUpTo(Feature, MaxList) :
        \E fin \in Orders(get_complements(included)) :
            /\ calls' = <<[fn |-> "get_complements", arg |-> included]>>
            /\ ret' = fin
            /\ UNCHANGED <<builder, progVars>>

CatalogNext == ResolveFeatures \/ Complements

CatalogSpec == CatalogInit /\ [][CatalogNext]_vars

(***************************************************************************)
(* C16: Preset expansion.  Resolving Preset(All) returns every catalog     *)
(* feature, Preset(Core) returns [Core] and Preset(CorePlus) returns       *)
(* [Core, Option, Result]; each of these is in catalog order (Core,        *)
(* Example, Option, Result, Parsers) without duplicates; resolving         *)
(* Custom(list) returns the list verbatim.                                 *)
(***************************************************************************)
C16_PresetExpansion ==
    (calls # <<>> /\ calls[1].fn = "get_feature_list")
    => LET cf == calls[1].arg
           order == <<"Core", "Example", "Option", "Result", "Parsers">>
           pos(f) == CHOOSE i \in 1..5 : order[i] = f
       IN /\ cf = Preset("All")
                => Range(ret) = {"Core", "Example", "Option", "Result", "Parsers"}
          /\ cf = Preset("Core") => ret = <<"Core">>
          /\ cf = Preset("CorePlus") => ret = <<"Core", "Option", "Result">>
          /\ cf.tag = "Preset"
                => \A i, j \in 1..Len(ret) : i < j => pos(ret[i]) < pos(ret[j])
          /\ cf.tag = "Custom" => ret = cf.features

\* the CorePlus preset has been resolved
C16_Witness ==
    /\ calls # <<>>
    /\ calls[1].fn = "get_feature_list"
    /\ calls[1].arg = Preset("CorePlus")
    /\ Len(ret) = 3

(***************************************************************************)
(* C17: Complement partitions the catalog.  For every list of catalog      *)
(* features, repeated entries included, the complement together with the   *)
(* list's features is the whole catalog, the complement shares no feature  *)
(* with the list, and the complement names no feature twice.               *)
(***************************************************************************)
C17_ComplementPartitions ==
    (calls # <<>> /\ calls[1].fn = "get_complements")
    => LET S == Range(calls[1].arg)
       IN /\ Range(ret) \cup S = {"Core", "Example", "Option", "Result", "Parsers"}
          /\ Range(ret) \cap S = {}
          /\ NoDup(ret)

\* the complement of a list that names one feature twice
C17_Witness ==
    /\ calls # <<>>
    /\ calls[1].fn = "get_complements"
    /\ Len(calls[1].arg) = 2
    /\ calls[1].arg[1] = calls[1].arg[2]
    /\ Len(ret) = 4

(***************************************************************************)
(* C19: First run is remembered.  The first-run flow is entered only when  *)
(* find_settings() returns none; when the first run's handle() of the      *)
(* configuration c succeeds, find_settings() on the disk it leaves returns *)
(* c unchanged, also when Parsers was left out of a merged file for a      *)
(* runtime other than Deno; and the run after it loads c and is one of the *)
(* modify/delete flows, never the first-run flow again.                    *)
(***************************************************************************)
C19_FirstRunRemembered ==
    [][/\ op'.name = "first" => find_settings(disk).res = "none"
       /\ (op'.name = "first" /\ outcome' = "done")
             => find_settings(disk') = Loaded(op'.config)
       /\ (op.name = "first" /\ outcome = "done")
             => /\ op'.name \in {"add", "remove", "delete"}
                /\ CHOICES'.some
                /\ op'.config = op.config]_vars

\* the run after a first run that merged Preset(All) for NodeJs: it has
\* loaded the configuration with the preset as it was chosen
C19_Witness ==
    /\ origin = "empty"
    /\ runs = 2
    /\ op.name \in {"add", "remove", "delete"}
    /\ CHOICES.some
    /\ op.config.runtime = "NodeJs"
    /\ op.config.modularity = "SingleFile"
    /\ op.config.feature_set = Preset("All")

(***************************************************************************)
(* C20: Settings write is the last step.  In handle() the settings are     *)
(* saved only as the last call of the run, after the artifact calls that   *)
(* follow the start of handle() have all been made and have all succeeded; *)
(* when an artifact call fails the settings are not saved and the settings *)
(* file is as it was.  In remove_completely() the settings file is         *)
(* rewritten or removed only directly after the removal of the artifact    *)
(* has been attempted.                                                     *)
(***************************************************************************)
C20_SettingsWriteLast ==
    LET artifact == {"write", "create_dir"}
        features == get_feature_list(Handled.feature_set)
        expected == IF Handled.modularity = "SingleFile" THEN 1
                    ELSE 1 + Len(features)
    IN /\ \A i \in 1..Len(log) :
             log[i].call = "save_settings"
             => /\ i = Len(log)
                /\ \E h \in 1..(i - 1) :
                      /\ log[h].call = "handle"
                      /\ i - h - 1 = expected
                      /\ \A j \in (h + 1)..(i - 1) :
                            log[j].call \in artifact /\ log[j].ok
       /\ (\E i \in 1..Len(log) : log[i].call \in artifact /\ ~log[i].ok)
             => ~Logged("save_settings") /\ disk.settings = pre.settings
       /\ \A i \in 1..Len(log) :
             log[i].call \in {"remove_settings_file", "write_settings"}
             => /\ i > 1
                /\ log[i - 1].call \in {"remove_file", "remove_dir_all"}
                /\ \A j \in 1..(i - 1) :
                      log[j].call \notin {"remove_settings_file", "write_settings",
                                          "save_settings"}

\* a run that wrote the crabSafe directory with two files or more and then
\* saved the settings
C20_Witness ==
    /\ LoggedOk("save_settings")
    /\ Handled.modularity = "SplitFiles"
    /\ Len(get_feature_list(Handled.feature_set)) >= 2
    /\ disk.settings # pre.settings

(***************************************************************************)
(* C21: No duplicate features.  Whatever runs have happened, first run,    *)
(* confirmed Add package and Remove package included, the feature list of  *)
(* the configuration in CHOICES and the feature list of the record in the  *)
(* settings file name no feature twice, and the file-system calls of one   *)
(* run never write the same path twice.                                    *)
(***************************************************************************)
C21_NoDuplicateFeatures ==
    /\ CHOICES.some => NoDup(get_feature_list(CHOICES.val.feature_set))
    /\ find_settings(disk).res = "some"
          => NoDup(get_feature_list(find_settings(disk).val.feature_set))
    /\ \A i, j \in 1..Len(log) :
          (i < j /\ log[i].call = "write" /\ log[j].call = "write")
          => log[i].path # log[j].path

\* a confirmed Add package in SplitFiles mode that saved the longer list
C21_Witness ==
    /\ op.name = "add" /\ op.confirm /\ op.picked # <<>>
    /\ op.config.modularity = "SplitFiles"
    /\ LoggedOk("save_settings")
    /\ Len(get_feature_list(CHOICES.val.feature_set)) >= 2
    /\ find_settings(disk).val = CHOICES.val

(***************************************************************************)
(* gen_single_filedata on its own: the function is pure, so it is applied  *)
(* to every list of texts up to a length, for every runtime.  The texts    *)
(* have what the merge looks at: import lines that are equal in two texts, *)
(* indented, local ("./) or remote (http), a text without a final newline, *)
(* blank lines at either end, and the empty text.                          *)
(***************************************************************************)
\* number of texts merged in one call
MaxFiles == 2

MergeTexts ==
    { << <<"import", "pkg">>, <<"a_body">>, <<>> >>,
      << <<"import", "pkg">>, <<" ", "import", "\"./">>, <<"b_body">>, <<>> >>,
      << <<"import", "http">>, <<"c_body">> >>,
      << <<>>, <<"d_body">>, <<" ">>, <<>> >>,
      << <<" ", "import", "http", "\"./">>, <<>> >>,
      EmptyStr }

MergeInit ==
    /\ NoRun
    /\ builder = ProjectBuilder_new
    /\ calls = <<>>
    /\ ret = <<>>

\* self.gen_single_filedata(relevant_files)
GenSingleFiledata ==
    \E runtime \in Runtime, relevant_files \in SeqsUpTo(MergeTexts, MaxFiles) :
        /\ calls' = <<[fn |-> "gen_single_filedata",
                       arg |-> [runtime |-> runtime, relevant_files |-> relevant_files]]>>
        /\ ret' = gen_single_filedata(runtime, relevant_files)
        /\ UNCHANGED <<builder, progVars>>

MergeNext == GenSingleFiledata

MergeSpec == MergeInit /\ [][MergeNext]_vars

(***************************************************************************)
(* C22: Merged-file layout.  The merged text starts with the import lines  *)
(* of the input texts, text by text and line by line, that do not contain  *)
(* "./ and, for a runtime other than Deno, do not contain http, each as    *)
(* often as it occurs; when there is such a line, a blank line follows;    *)
(* then comes the trimmed concatenation, in input order, of the texts      *)
(* without their import lines, and no line of that part is an import line. *)
(***************************************************************************)
C22_MergedLayout ==
    (calls # <<>> /\ calls[1].fn = "gen_single_filedata")
    => LET runtime == calls[1].arg.runtime
           files == calls[1].arg.relevant_files
           Flat[i \in 0..Len(files)] == IF i = 0 THEN <<>> ELSE Flat[i - 1] \o files[i]
           survives(line) == /\ IsImportLine(line)
                             /\ ~Contains(line, "\"./")
                             /\ runtime = "Deno" \/ ~Contains(line, "http")
           imports == SelectSeq(Flat[Len(files)], survives)
           n == Len(imports)
           bodyOf(text) == Join(SelectSeq(text, LAMBDA line : ~IsImportLine(line)))
           Bodies[i \in 0..Len(files)] ==
               IF i = 0 THEN EmptyStr ELSE StrCat(Bodies[i - 1], bodyOf(files[i]))
           body == IF n = 0 THEN ret ELSE SubSeq(ret, n + 2, Len(ret))
       IN /\ Len(ret) >= (IF n = 0 THEN 1 ELSE n + 2)
          /\ SubSeq(ret, 1, n) = imports
          /\ n > 0 => ret[n + 1] = <<>>
          /\ body = Trim(Bodies[Len(files)])
          /\ \A i \in 1..Len(body) : ~IsImportLine(body[i])

\* two texts with the same import line: the line is there twice, then the
\* blank line, then the two bodies
C22_Witness ==
    /\ calls # <<>>
    /\ calls[1].fn = "gen_single_filedata"
    /\ Len(calls[1].arg.relevant_files) = 2
    /\ Len(ret) >= 5
    /\ ret[1] = <<"import", "pkg">>
    /\ ret[2] = <<"import", "pkg">>
    /\ ret[3] = <<>>
    /\ ret[4] = <<"a_body">>

(***************************************************************************)
(* C23: Remove package in SplitFiles mode touches only the crabSafe        *)
(* directory.  After a confirmed Remove package on a SplitFiles            *)
(* configuration every file and every directory that was on disk outside   *)
(* the crabSafe directory of the destination is still there, the files     *)
(* with their text, and every key of the settings file other than crabSafe *)
(* has its value.                                                          *)
(***************************************************************************)
C23_RemoveTouchesOnlyCrabSafe ==
    (op.name = "remove" /\ op.confirm /\ op.config.modularity = "SplitFiles")
    => LET crabSafe == Append(Resolve(platform, op.config.chosen_directory),
                              <<"crabSafe">>)
       IN /\ \A q \in DOMAIN pre.files :
                ~IsPrefix(crabSafe, q)
                => q \in DOMAIN disk.files /\ disk.files[q] = pre.files[q]
          /\ \A q \in pre.dirs : ~IsPrefix(crabSafe, q) => q \in disk.dirs
          /\ Others(disk.settings) = Others(pre.settings)

(***************************************************************************)
(* C24: A declined confirmation changes nothing.  When the user does not   *)
(* answer yes at the overwrite confirmation of Add package or of Remove    *)
(* package, or at the confirmation of handle_delete_crabsafe, the run      *)
(* makes no file-system call, the disk, artifact and settings file         *)
(* included, is as the run found it, and CHOICES holds the configuration   *)
(* the run loaded.                                                         *)
(***************************************************************************)
C24_DeclinedChangesNothing ==
    (\/ /\ op.name \in {"add", "remove"}
        /\ ~op.del_instead /\ ~op.confirm /\ outcome = "done"
     \/ /\ op.name = "delete" \/ (op.name = "remove" /\ op.del_instead)
        /\ ~op.confirm_del)
    => /\ log = <<>>
       /\ disk = pre
       /\ find_settings(pre).res = "some"
       /\ CHOICES = SomeChoices(find_settings(pre).val)
       /\ op.config = find_settings(pre).val

\* Delete crabSafe declined in the run after an installation
C24_Witness ==
    /\ origin = "empty"
    /\ op.name = "delete" /\ ~op.confirm_del
    /\ outcome = "done"
    /\ ArtifactExists(disk, CHOICES.val)
    /\ HasRecord(disk)

(***************************************************************************)
(* handle() followed by remove_completely() for the same configuration,    *)
(* for every shape of the destination string.                              *)
(***************************************************************************)
\* settings_finder::remove_completely(&choices) after a handle() that succeeded
RemoveMaterialized ==
    /\ runs = 1
    /\ op.name = "materialize"
    /\ outcome = "done"
    /\ LET r == remove_completely(platform, disk, op.config, <<>>)
       IN RunEnds(Op("remove_completely", op.config, <<>>, FALSE, TRUE, FALSE),
                  SomeChoices(op.config), r, IF r.ok THEN "done" ELSE "error")

RoundTripNext == Materialize \/ RemoveMaterialized

RoundTripSpec == MaterializeInit /\ [][RoundTripNext]_vars

(***************************************************************************)
(* C25: Delete targets what materialize wrote.  For every destination      *)
(* string and both modularities, remove_completely() after a successful    *)
(* handle() of the same configuration removes a path that handle() had     *)
(* created, the removal succeeds, and afterwards the files and directories *)
(* on disk are those that were there before handle(): nothing of the       *)
(* artifact is left and nothing else is gone.                              *)
(***************************************************************************)
C25_DeleteTargetsWhatWasWritten ==
    op.name = "remove_completely"
    => /\ log # <<>>
       /\ log[1].call \in {"remove_file", "remove_dir_all"}
       /\ log[1].ok
       /\ log[1].path \in ArtifactPart(pre).dirs \cup DOMAIN ArtifactPart(pre).files
       /\ disk.dirs = EmptyDisk.dirs
       /\ disk.files = EmptyDisk.files
====
